---- MODULE Spec2Model ----
(***************************************************************************)
(* Model of firmware/src/server.py: the host-side serial control script    *)
(* of the Tilta Nucleus Nano 2 motor controller.                           *)
(*                                                                         *)
(* Text is modelled as a sequence of Unicode code points and wire data as  *)
(* a sequence of bytes, so that strip(), upper(), int(), str.encode() and  *)
(* bytes.decode() are computed rather than assumed.                        *)
(***************************************************************************)
EXTENDS Integers, Sequences, FiniteSets, TLC

(***************************************************************************)
(* Bounds of the model.                                                    *)
(***************************************************************************)
\* Largest number of ports one enumeration returns.
MaxPorts == 3
\* Largest number of bytes the device sends during one run.
MaxDevBytes == 2

(***************************************************************************)
(* Text helpers.                                                           *)
(***************************************************************************)
\* Python's None, kept apart from every text (no text holds code point -1).
None == <<-1>>

\* str(x): the text itself, or "None" for None (server.py:22).
Str(x) == IF x = None THEN <<78, 111, 110, 101>> ELSE x

\* Python's `needle in hay` on str: a contiguous, case-sensitive match.
Contains(needle, hay) ==
    \E i \in 0..(Len(hay) - Len(needle)) :
        SubSeq(hay, i + 1, i + Len(needle)) = needle

\* str.isspace() for one code point.
IsSpace(c) == c \in {9, 10, 11, 12, 13, 28, 29, 30, 31, 32, 133, 160}

RECURSIVE LStrip(_)
LStrip(s) == IF s # <<>> /\ IsSpace(Head(s)) THEN LStrip(Tail(s)) ELSE s

RECURSIVE RStrip(_)
RStrip(s) ==
    IF s # <<>> /\ IsSpace(s[Len(s)]) THEN RStrip(SubSeq(s, 1, Len(s) - 1)) ELSE s

\* str.strip() with no argument.
Strip(s) == RStrip(LStrip(s))

\* str.upper() for one code point: ASCII letters, Latin-1 e-acute, and the
\* dotless i (U+0131), whose upper case is the ASCII letter I.
UpperChar(c) ==
    IF c \in 97..122 THEN c - 32
    ELSE IF c = 233 THEN 201
    ELSE IF c = 305 THEN 73
    ELSE c

Upper(s) == [i \in 1..Len(s) |-> UpperChar(s[i])]

\* str.lower() for one code point.
LowerChar(c) ==
    IF c \in 65..90 THEN c + 32
    ELSE IF c = 201 THEN 233
    ELSE c

Lower(s) == [i \in 1..Len(s) |-> LowerChar(s[i])]

IsDigit(c) == c \in 48..57

RECURSIVE DigitsValue(_)
\* The value of a text of decimal digits, underscores skipped.
DigitsValue(s) ==
    IF s = <<>> THEN 0
    ELSE LET c == s[Len(s)]
             rest == SubSeq(s, 1, Len(s) - 1)
         IN  IF c = 95 THEN DigitsValue(rest)
             ELSE 10 * DigitsValue(rest) + (c - 48)

\* The digit part of an int() literal: digits, single underscores between them.
ValidDigits(s) ==
    /\ s # <<>>
    /\ \A i \in 1..Len(s) : IsDigit(s[i]) \/ s[i] = 95
    /\ IsDigit(s[1]) /\ IsDigit(s[Len(s)])
    /\ \A i \in 1..(Len(s) - 1) : ~(s[i] = 95 /\ s[i + 1] = 95)

\* int(text): surrounding whitespace dropped, an optional sign, decimal digits.
\* ok = FALSE stands for ValueError.
ParseInt(text) ==
    LET s == Strip(text)
        signed == s # <<>> /\ s[1] \in {43, 45}
        body == IF signed THEN Tail(s) ELSE s
    IN  IF ValidDigits(body)
        THEN [ok |-> TRUE,
              val |-> IF signed /\ s[1] = 45 THEN 0 - DigitsValue(body)
                      ELSE DigitsValue(body)]
        ELSE [ok |-> FALSE, val |-> 0]

RECURSIVE IntToStr(_)
\* The decimal text of a natural number, as an f-string formats it.
IntToStr(n) ==
    IF n < 10 THEN <<48 + n>> ELSE IntToStr(n \div 10) \o <<48 + (n % 10)>>

\* UTF-8 encoding of one code point below U+0800.
EncodeChar(c) ==
    IF c < 128 THEN <<c>> ELSE <<192 + (c \div 64), 128 + (c % 64)>>

RECURSIVE Encode(_)
\* str.encode(): UTF-8.
Encode(s) == IF s = <<>> THEN <<>> ELSE EncodeChar(Head(s)) \o Encode(Tail(s))

RECURSIVE Decode(_)
\* bytes.decode('utf-8', errors='ignore'): one- and two-byte forms are
\* decoded, every byte that starts no valid form is dropped.
Decode(b) ==
    IF b = <<>> THEN <<>>
    ELSE IF b[1] < 128 THEN <<b[1]>> \o Decode(Tail(b))
    ELSE IF b[1] \in 194..223 /\ Len(b) >= 2 /\ b[2] \in 128..191
         THEN <<(b[1] - 192) * 64 + (b[2] - 128)>> \o Decode(SubSeq(b, 3, Len(b)))
    ELSE Decode(Tail(b))

(***************************************************************************)
(* Port enumeration (list_devices).                                        *)
(***************************************************************************)
\* "Tilta Motor Control" (server.py:21) and "Straw Lab" (server.py:22).
ProductName ==
    <<84, 105, 108, 116, 97, 32, 77, 111, 116, 111, 114, 32, 67, 111, 110,
      116, 114, 111, 108>>
VendorName == <<83, 116, 114, 97, 119, 32, 76, 97, 98>>

\* The descriptions and manufacturers a port can report.
PortKinds ==
    { \* "Tilta Motor Control", no manufacturer
      [description |-> ProductName, manufacturer |-> None],
      \* "USB Serial", "Straw Lab"
      [description |-> <<85, 83, 66, 32, 83, 101, 114, 105, 97, 108>>,
       manufacturer |-> VendorName],
      \* "tilta motor control" (lower case), no manufacturer
      [description |-> <<116, 105, 108, 116, 97, 32, 109, 111, 116, 111, 114,
                         32, 99, 111, 110, 116, 114, 111, 108>>,
       manufacturer |-> None],
      \* "USB Serial", "FTDI"
      [description |-> <<85, 83, 66, 32, 83, 101, 114, 105, 97, 108>>,
       manufacturer |-> <<70, 84, 68, 73>>] }

\* Device paths: n stands for the n-th serial device node of the host.
Paths == 1..MaxPorts

PortDescriptors ==
    { [device |-> d, description |-> k.description, manufacturer |-> k.manufacturer] :
        d \in Paths, k \in PortKinds }

\* What comports() can return: up to MaxPorts ports with distinct paths,
\* listed in path order.
Enumerations ==
    UNION { { e \in [1..n -> PortDescriptors] :
                \A i, j \in 1..n : i < j => e[i].device < e[j].device } :
            n \in 0..MaxPorts }

\* The test of server.py:21-22.
IsCandidate(port) ==
    \/ Contains(ProductName, Str(port.description))
    \/ Contains(VendorName, Str(port.manufacturer))

RECURSIVE Candidates(_)
\* The devices list list_devices builds: candidates in enumeration order.
Candidates(ps) ==
    IF ps = <<>> THEN <<>>
    ELSE (IF IsCandidate(Head(ps)) THEN <<Head(ps)>> ELSE <<>>) \o Candidates(Tail(ps))

(***************************************************************************)
(* Inputs of a run.                                                        *)
(***************************************************************************)
\* Command-line arguments after the script name: none, "Demo", "demos".
Argvs == { <<>>, << <<68, 101, 109, 111>> >>, << <<100, 101, 109, 111, 115>> >> }

\* Texts typed at a selection prompt:
\* "0" "1" "2" "3" "4" "5" "-1" "-0" " 1 " "+1" "1_0" "x" "" "1.0"
Entries ==
    { <<48>>, <<49>>, <<50>>, <<51>>, <<52>>, <<53>>, <<45, 49>>, <<45, 48>>,
      <<32, 49, 32>>, <<43, 49>>, <<49, 95, 48>>, <<120>>, <<>>, <<49, 46, 48>> }

\* Lines typed in the interactive session:
\* "QUIT" " Quit " "quıt" (dotless i) " Demo " "" "  "
\* "pos 10" " pos 10 " "café" "quit now"
Lines ==
    { <<81, 85, 73, 84>>, <<32, 81, 117, 105, 116, 32>>, <<113, 117, 305, 116>>,
      <<32, 68, 101, 109, 111, 32>>,
      <<>>, <<32, 32>>,
      <<112, 111, 115, 32, 49, 48>>, <<32, 112, 111, 115, 32, 49, 48, 32>>,
      <<99, 97, 102, 233>>, <<113, 117, 105, 116, 32, 110, 111, 119>> }

\* Bytes the device can send: "O" and the two bytes of e-acute, each of which
\* is no valid UTF-8 on its own.
DevBytes == {79, 195, 169}

(***************************************************************************)
(* State.                                                                  *)
(***************************************************************************)
VARIABLES
    argv,          \* sys.argv[1:]
    pc,            \* position of the main thread
    exc,           \* the exception that ended the main thread, "" if none
    ports,         \* connect_to_device: ports returned by list_devices
    devices,       \* connect_to_device: candidate devices
    port_name,     \* connect_to_device: the path to open, NoPath for None
    prompts,       \* connect_to_device: the selection prompts issued in
                   \* the call, <<[over, count, entry]>>
    openAttempts,  \* paths handed to serial.Serial(), in order
    ser,           \* the Connection, NoSerial for None
    closeCount,    \* number of ser.close() calls made
    mode,          \* "" before the dispatch of main, then "demo" or "interactive"
    line,          \* interactive_mode: the line input() returned last
    caughtAt,      \* position at which the session caught KeyboardInterrupt
    command,       \* send_command: its command argument
    demoIdx,       \* demo_mode: index of the current position, 0 outside
    trace,         \* prints, writes and sleeps of the main thread since the
                   \* latest of: the program start, a line read, a demo
                   \* entry, an exception raised
    rpc,           \* position of the reader thread
    rn,            \* read_responses: the size handed to ser.read(), 0 once
                   \* the call is over
    rdata,         \* read_responses: the decoded response, empty once the
                   \* print is over
    rexc,          \* the exception that escaped read_responses, "" if none
    rxBuf,         \* bytes received from the device and not yet read
    devSent,       \* number of bytes the device has sent
    printed        \* text the reader thread has printed

connVars == <<ports, devices, port_name, prompts, openAttempts>>
mainVars == <<pc, exc, mode, line, caughtAt, command, demoIdx, trace>>
readerVars == <<rpc, rn, rdata, rexc, printed>>
vars ==
    <<argv, pc, exc, ports, devices, port_name, prompts, openAttempts, ser,
      closeCount, mode, line, caughtAt, command, demoIdx, trace, rpc, rn,
      rdata, rexc, rxBuf, devSent, printed>>

\* port_name=None (server.py:27) and the ser of a failed connect (server.py:76).
NoPath == 0
NoSerial == [port |-> NoPath, is_open |-> FALSE]

\* Events of the main thread: a line printed, bytes written to the Connection,
\* a sleep (in milliseconds), received bytes read and dropped.
EvPrint(msg) == [ev |-> "print", msg |-> msg]
EvWrite(bytes) == [ev |-> "write", bytes |-> bytes]
EvSleep(ms) == [ev |-> "sleep", ms |-> ms]
EvDiscard(bytes) == [ev |-> "discard", dropped |-> bytes]

Init ==
    /\ argv \in Argvs
    /\ pc = "main"
    /\ exc = ""
    /\ ports = <<>>
    /\ devices = <<>>
    /\ port_name = NoPath
    /\ prompts = <<>>
    /\ openAttempts = <<>>
    /\ ser = NoSerial
    /\ closeCount = 0
    /\ mode = ""
    /\ line = None
    /\ caughtAt = ""
    /\ command = <<>>
    /\ demoIdx = 0
    /\ trace = <<>>
    /\ rpc = "unstarted"
    /\ rn = 0
    /\ rdata = <<>>
    /\ rexc = ""
    /\ rxBuf = <<>>
    /\ devSent = 0
    /\ printed = <<>>

\* Raise with a session handler that catches every exception.
RaiseCaughtBySession(e) ==
    /\ pc' = IF mode = "interactive" THEN "close" ELSE "crashed"
    /\ exc' = IF mode = "interactive" THEN exc ELSE e
    /\ line' = None
    /\ command' = <<>>
    /\ demoIdx' = 0
    /\ trace' = IF mode = "interactive"
                THEN <<EvPrint("\nExiting...")>>
                ELSE <<EvPrint("Traceback (most recent call last):")>>

\* The main thread ends with an uncaught exception: its frames are unwound
\* and the traceback is printed.
Raise(e) ==
    /\ pc' = "crashed"
    /\ exc' = e
    /\ line' = None
    /\ command' = <<>>
    /\ demoIdx' = 0
    /\ trace' = <<EvPrint("Traceback (most recent call last):")>>

\* What Raise sets, left alone.
NoRaise == UNCHANGED <<exc, line, command, demoIdx, trace>>

(***************************************************************************)
(* main and connect_to_device.                                             *)
(***************************************************************************)
\* server.py:145-149: the title is printed and connect_to_device() is called
\* with no port name.
MainStart ==
    /\ pc = "main"
    /\ pc' = "list_devices"
    /\ trace' = trace \o <<EvPrint("Tilta Nucleus Nano 2 Motor Control")>>
    /\ UNCHANGED <<argv, exc, connVars, ser, closeCount, mode, line, caughtAt,
                   command, demoIdx, readerVars, rxBuf, devSent>>

\* server.py:29-30 and list_devices (14-25): the ports are enumerated and
\* printed, the candidates collected.
ListDevices ==
    /\ pc = "list_devices"
    /\ port_name = NoPath
    /\ \E e \in Enumerations :
        /\ ports' = e
        /\ devices' = Candidates(e)
    /\ pc' = "select"
    /\ UNCHANGED <<argv, exc, port_name, prompts, openAttempts, ser, closeCount,
                   mode, line, caughtAt, command, demoIdx, trace, readerVars,
                   rxBuf, devSent>>

\* InRange without its lower bound.
InRangeNoLowerBound(selection, count) == selection < count

\* The range test of server.py:45 and 61.
InRange(selection, count) == 0 <= selection /\ selection < count

\* Python list indexing: lst[i], negative i counting from the end.
Index(lst, i) == IF i >= 0 THEN lst[i + 1] ELSE lst[Len(lst) + i + 1]

\* PromptList always taking the full port list.
PromptListAllPorts(ps, ds) == ps

\* The list a selection prompt is over (server.py:32, 44-46, 60-62).
PromptList(ps, ds) == IF ds # <<>> THEN ds ELSE ps

\* server.py:43-52 and 59-68: one selection prompt over lst, answered by entry.
\* The result is the path chosen, or NoPath with the message printed.
Choose(lst, entry) ==
    LET sel == ParseInt(entry)
    IN  IF ~sel.ok THEN [path |-> NoPath, msg |-> "Invalid input!"]
        ELSE IF InRange(sel.val, Len(lst))
             THEN [path |-> Index(lst, sel.val).device, msg |-> ""]
        ELSE [path |-> NoPath, msg |-> "Invalid selection!"]

\* NeedsPrompt without the test for an empty port list (server.py:55).
NeedsPromptNoEmptyTest(ps, ds) == Len(ds) > 1 \/ ds = <<>>

\* AutoSelect taking the first port instead of the first candidate.
AutoSelectFirstPort(ps, ds) == ps[1].device

\* server.py:34 and 55: a prompt is issued for several candidates, and for
\* no candidate unless there is no port at all.
NeedsPrompt(ps, ds) == Len(ds) > 1 \/ (ds = <<>> /\ ps # <<>>)

\* server.py:35: the path of the only candidate.
AutoSelect(ps, ds) == ds[1].device

\* server.py:32-36 and 53-57, the branches without a prompt: one candidate is
\* auto-selected, no port at all is a failure.
SelectAuto ==
    /\ pc = "select"
    /\ ~NeedsPrompt(ports, devices)
    /\ \/ /\ devices # <<>>
          /\ port_name' = AutoSelect(ports, devices)
          /\ trace' = trace \o <<EvPrint("Auto-detected motor controller")>>
          /\ pc' = "open"
       \/ /\ devices = <<>>
          /\ port_name' = port_name
          /\ trace' = trace \o <<EvPrint("No serial ports found!")>>
          /\ pc' = "connect_returned"
    /\ UNCHANGED <<argv, exc, ports, devices, prompts, openAttempts, ser,
                   closeCount, mode, line, caughtAt, command, demoIdx,
                   readerVars, rxBuf, devSent>>

\* server.py:38-52 and 59-68: several candidates, or ports but no candidate:
\* one prompt; the entry selects a path or connect_to_device returns None.
SelectPrompt ==
    /\ pc = "select"
    /\ NeedsPrompt(ports, devices)
    /\ \E entry \in Entries :
        LET lst == PromptList(ports, devices)
            r == Choose(lst, entry)
        IN  /\ prompts' = Append(prompts,
                  [over |-> IF devices # <<>> THEN "devices" ELSE "ports",
                   count |-> Len(lst), entry |-> entry])
            /\ port_name' = r.path
            /\ trace' = IF r.msg = "" THEN trace ELSE trace \o <<EvPrint(r.msg)>>
            /\ pc' = IF r.path = NoPath THEN "connect_returned" ELSE "open"
    /\ UNCHANGED <<argv, exc, ports, devices, openAttempts, ser, closeCount,
                   mode, line, caughtAt, command, demoIdx, readerVars, rxBuf,
                   devSent>>

\* server.py:44 and 60: input() meets the end of standard input; EOFError is
\* not caught.
SelectEOF ==
    /\ pc = "select"
    /\ NeedsPrompt(ports, devices)
    /\ prompts' = Append(prompts,
          [over |-> IF devices # <<>> THEN "devices" ELSE "ports",
           count |-> Len(PromptList(ports, devices)), entry |-> None])
    /\ Raise("EOFError")
    /\ UNCHANGED <<argv, ports, devices, port_name, openAttempts, ser,
                   closeCount, mode, caughtAt, readerVars, rxBuf, devSent>>

\* server.py:70-76: serial.Serial() opens the port or raises SerialException,
\* which is caught and makes connect_to_device return None.
Open ==
    /\ pc = "open"
    /\ openAttempts' = Append(openAttempts, port_name)
    /\ \/ /\ ser' = [port |-> port_name, is_open |-> TRUE]
          /\ trace' = trace \o <<EvPrint("Connected")>>
       \/ /\ ser' = NoSerial
          /\ trace' = trace \o <<EvPrint("Failed to connect")>>
    /\ pc' = "connect_returned"
    /\ UNCHANGED <<argv, exc, ports, devices, port_name, prompts, closeCount,
                   mode, line, caughtAt, command, demoIdx, readerVars, rxBuf,
                   devSent>>

\* MainConnected with another try at a Connection when there is none.
MainConnectedRetry ==
    /\ pc = "connect_returned"
    /\ pc' = IF ser = NoSerial THEN "list_devices" ELSE "settle"
    /\ ports' = <<>>
    /\ devices' = <<>>
    /\ port_name' = NoPath
    /\ prompts' = <<>>
    /\ UNCHANGED <<argv, exc, openAttempts, ser, closeCount, mode, line,
                   caughtAt, command, demoIdx, trace, readerVars, rxBuf, devSent>>

\* server.py:149-151: connect_to_device has returned and its locals are gone;
\* main returns when there is no Connection.
MainConnected ==
    /\ pc = "connect_returned"
    /\ pc' = IF ser = NoSerial THEN "returned" ELSE "settle"
    /\ ports' = <<>>
    /\ devices' = <<>>
    /\ port_name' = NoPath
    /\ prompts' = <<>>
    /\ UNCHANGED <<argv, exc, openAttempts, ser, closeCount, mode, line,
                   caughtAt, command, demoIdx, trace, readerVars, rxBuf, devSent>>

\* Settle with no delay.
SettleSkipped ==
    /\ pc = "settle"
    /\ pc' = "clear_check"
    /\ UNCHANGED <<argv, exc, connVars, ser, closeCount, mode, line, caughtAt,
                   command, demoIdx, trace, readerVars, rxBuf, devSent>>

\* server.py:153-154: the settle delay.
Settle ==
    /\ pc = "settle"
    /\ trace' = trace \o <<EvSleep(1000)>>
    /\ pc' = "clear_check"
    /\ UNCHANGED <<argv, exc, connVars, ser, closeCount, mode, line, caughtAt,
                   command, demoIdx, readerVars, rxBuf, devSent>>

\* server.py:157: `if ser.in_waiting`; an I/O error is not caught.
ClearCheck ==
    /\ pc = "clear_check"
    /\ \/ /\ pc' = IF rxBuf = <<>> THEN "dispatch" ELSE "clear_read"
          /\ NoRaise
       \/ Raise("SerialException")
    /\ UNCHANGED <<argv, connVars, ser, closeCount, mode, caughtAt, readerVars,
                   rxBuf, devSent>>

\* server.py:158: ser.read(ser.in_waiting) reads what is buffered now and
\* drops it.
ClearRead ==
    /\ pc = "clear_read"
    /\ \/ /\ trace' = trace \o <<EvDiscard(rxBuf)>>
          /\ rxBuf' = <<>>
          /\ pc' = "dispatch"
          /\ UNCHANGED <<exc, line, command, demoIdx>>
       \/ /\ Raise("SerialException")
          /\ rxBuf' = rxBuf
    /\ UNCHANGED <<argv, connVars, ser, closeCount, mode, caughtAt, readerVars,
                   devSent>>

\* "demo" (server.py:161).
DemoArg == <<100, 101, 109, 111>>

\* The test of server.py:161.
DemoRequested(args) == Len(args) > 0 /\ Lower(args[1]) = DemoArg

\* server.py:160-164: the mode is chosen from the first argument.
Dispatch ==
    /\ pc = "dispatch"
    /\ IF DemoRequested(argv)
       THEN mode' = "demo" /\ pc' = "demo_enter"
       ELSE mode' = "interactive" /\ pc' = "interactive_enter"
    /\ UNCHANGED <<argv, exc, connVars, ser, closeCount, line, caughtAt, command,
                   demoIdx, trace, readerVars, rxBuf, devSent>>

(***************************************************************************)
(* send_command and demo_mode.                                             *)
(***************************************************************************)
\* Positions with 4096 for the maximum.
PositionsPastMax ==
    << [pos |-> 0, desc |-> "Minimum position"],
       [pos |-> 1024, desc |-> "Quarter position"],
       [pos |-> 2048, desc |-> "Center position"],
       [pos |-> 3072, desc |-> "Three-quarter position"],
       [pos |-> 4096, desc |-> "Maximum position"],
       [pos |-> 2048, desc |-> "Back to center"] >>

\* server.py:99-106.
Positions ==
    << [pos |-> 0, desc |-> "Minimum position"],
       [pos |-> 1024, desc |-> "Quarter position"],
       [pos |-> 2048, desc |-> "Center position"],
       [pos |-> 3072, desc |-> "Three-quarter position"],
       [pos |-> 4095, desc |-> "Maximum position"],
       [pos |-> 2048, desc |-> "Back to center"] >>

\* f"\n{desc}..." (server.py:109).
Label(desc) == "\n" \o desc \o "..."

\* f"POS {pos}" (server.py:110).
PosCommand(pos) == <<80, 79, 83, 32>> \o IntToStr(pos)

\* CommandBytes ending the line with LF alone.
CommandBytesLF(cmd) == Encode(cmd \o <<10>>)

\* f"{command}\r\n".encode() (server.py:91).
CommandBytes(cmd) == Encode(cmd \o <<13, 10>>)

\* server.py:96-106: the header of the demo.
DemoEnter ==
    /\ pc = "demo_enter"
    /\ trace' = <<EvPrint("\n=== DEMO MODE ==="),
                  EvPrint("Running motor demo sequence...")>>
    /\ demoIdx' = 1
    /\ pc' = "demo_label"
    /\ UNCHANGED <<argv, exc, connVars, ser, closeCount, mode, line, caughtAt,
                   command, readerVars, rxBuf, devSent>>

\* server.py:108-110: the label of the current position is printed and
\* send_command is called with its command.
DemoLabel ==
    /\ pc = "demo_label"
    /\ trace' = trace \o <<EvPrint(Label(Positions[demoIdx].desc))>>
    /\ command' = PosCommand(Positions[demoIdx].pos)
    /\ pc' = "send_write"
    /\ UNCHANGED <<argv, exc, connVars, ser, closeCount, mode, line, caughtAt,
                   demoIdx, readerVars, rxBuf, devSent>>

\* server.py:91: the command is written; a write error is raised to the
\* caller, and nothing on the way up catches it.
SendWrite ==
    /\ pc = "send_write"
    /\ \/ /\ ser.is_open
          /\ trace' = trace \o <<EvWrite(CommandBytes(command))>>
          /\ pc' = "send_sleep"
          /\ UNCHANGED <<exc, line, command, demoIdx>>
       \/ Raise(IF ser.is_open THEN "SerialException" ELSE "PortNotOpenError")
    /\ UNCHANGED <<argv, connVars, ser, closeCount, mode, caughtAt, readerVars,
                   rxBuf, devSent>>

\* server.py:92: the grace sleep, then the return to the caller.
SendSleep ==
    /\ pc = "send_sleep"
    /\ trace' = trace \o <<EvSleep(100)>>
    /\ pc' = IF demoIdx > 0 THEN "demo_pause" ELSE "input"
    /\ UNCHANGED <<argv, exc, connVars, ser, closeCount, mode, line, caughtAt,
                   command, demoIdx, readerVars, rxBuf, devSent>>

\* server.py:111 and 108: the pause, then the next position if there is one.
DemoPause ==
    /\ pc = "demo_pause"
    /\ trace' = trace \o <<EvSleep(2000)>>
    /\ IF demoIdx < Len(Positions)
       THEN demoIdx' = demoIdx + 1 /\ pc' = "demo_label"
       ELSE demoIdx' = demoIdx /\ pc' = "demo_done"
    /\ UNCHANGED <<argv, exc, connVars, ser, closeCount, mode, line, caughtAt,
                   command, readerVars, rxBuf, devSent>>

\* DemoDone with a demo that ends the session it was started from.
DemoDoneEndsSession ==
    /\ pc = "demo_done"
    /\ trace' = trace \o <<EvPrint("\nDemo complete!")>>
    /\ demoIdx' = 0
    /\ pc' = "close"
    /\ UNCHANGED <<argv, exc, connVars, ser, closeCount, mode, line, caughtAt,
                   command, readerVars, rxBuf, devSent>>

\* server.py:113: the demo ends and returns to main (162) or to the session
\* loop (137).
DemoDone ==
    /\ pc = "demo_done"
    /\ trace' = trace \o <<EvPrint("\nDemo complete!")>>
    /\ demoIdx' = 0
    /\ pc' = IF mode = "interactive" THEN "input" ELSE "close"
    /\ UNCHANGED <<argv, exc, connVars, ser, closeCount, mode, line, caughtAt,
                   command, readerVars, rxBuf, devSent>>

(***************************************************************************)
(* interactive_mode.                                                       *)
(***************************************************************************)
\* "QUIT" (server.py:134) and "DEMO" (server.py:136).
QuitWord == <<81, 85, 73, 84>>
DemoWord == <<68, 69, 77, 79>>

\* IsQuit without the upper-casing.
IsQuitExactCase(cmd) == cmd = QuitWord

\* The tests of server.py:134 and 136.
IsQuit(cmd) == Upper(cmd) = QuitWord
IsDemo(cmd) == Upper(cmd) = DemoWord

\* server.py:117-128: the banner is printed and the reader thread started.
InteractiveEnter ==
    /\ pc = "interactive_enter"
    /\ trace' = trace \o <<EvPrint("\n=== INTERACTIVE MODE ===")>>
    /\ rpc' = "check_open"
    /\ pc' = "input"
    /\ UNCHANGED <<argv, exc, connVars, ser, closeCount, mode, line, caughtAt,
                   command, demoIdx, rn, rdata, rexc, printed, rxBuf, devSent>>

\* Input with every line that is neither QUIT nor DEMO sent, the empty ones
\* too.
InputSendsEmpty ==
    /\ pc = "input"
    /\ \E l \in Lines :
        LET cmd == Strip(l)
        IN  /\ line' = l
            /\ trace' = <<>>
            /\ IF IsQuit(cmd) THEN pc' = "close" /\ command' = command
               ELSE IF IsDemo(cmd) THEN pc' = "demo_enter" /\ command' = command
               ELSE pc' = "send_write" /\ command' = cmd
    /\ UNCHANGED <<argv, exc, connVars, ser, closeCount, mode, caughtAt, demoIdx,
                   readerVars, rxBuf, devSent>>

\* server.py:132-139: one line is read, stripped and dispatched.
Input ==
    /\ pc = "input"
    /\ \E l \in Lines :
        LET cmd == Strip(l)
        IN  /\ line' = l
            /\ trace' = <<>>
            /\ IF IsQuit(cmd) THEN pc' = "close" /\ command' = command
               ELSE IF IsDemo(cmd) THEN pc' = "demo_enter" /\ command' = command
               ELSE IF cmd # <<>> THEN pc' = "send_write" /\ command' = cmd
               ELSE pc' = "input" /\ command' = command
    /\ UNCHANGED <<argv, exc, connVars, ser, closeCount, mode, caughtAt, demoIdx,
                   readerVars, rxBuf, devSent>>

\* server.py:132: input() meets the end of standard input; the handler of
\* server.py:140 does not catch EOFError.
InputEOF ==
    /\ pc = "input"
    /\ Raise("EOFError")
    /\ UNCHANGED <<argv, connVars, ser, closeCount, mode, caughtAt, readerVars,
                   rxBuf, devSent>>

\* InTry with the try block around the dispatch alone, not around input().
InTryDispatchOnly(p, m) ==
    /\ m = "interactive"
    /\ p \in {"demo_enter", "demo_label", "send_write", "send_sleep",
              "demo_pause", "demo_done"}

\* InTry with the try block around input() alone.
InTryInputOnly(p, m) == m = "interactive" /\ p = "input"

\* The positions covered by the try block of server.py:131-139, which is
\* entered only from interactive_mode.
InTry(p, m) ==
    /\ m = "interactive"
    /\ p \in {"input", "demo_enter", "demo_label", "send_write", "send_sleep",
              "demo_pause", "demo_done"}

MainEnded == pc \in {"returned", "crashed"}

\* A user interrupt: KeyboardInterrupt is raised in the main thread wherever
\* it is. Inside the try block it is caught (server.py:140-142): the frames
\* below the loop are unwound, a notice is printed and the loop left.
\* Anywhere else nothing catches it.
Interrupt ==
    /\ ~MainEnded
    /\ IF InTry(pc, mode)
       THEN /\ trace' = <<EvPrint("\nExiting...")>>
            /\ caughtAt' = pc
            /\ line' = None
            /\ command' = <<>>
            /\ demoIdx' = 0
            /\ pc' = "close"
            /\ exc' = exc
       ELSE /\ Raise("KeyboardInterrupt")
            /\ caughtAt' = caughtAt
    /\ UNCHANGED <<argv, connVars, ser, closeCount, mode, readerVars, rxBuf,
                   devSent>>

\* Close with a session that goes on reading lines behind the close.
CloseKeepsSession ==
    /\ pc = "close"
    /\ ser' = [ser EXCEPT !.is_open = FALSE]
    /\ closeCount' = closeCount + 1
    /\ rxBuf' = <<>>
    /\ pc' = IF mode = "interactive" THEN "input" ELSE "disconnected"
    /\ UNCHANGED <<argv, exc, connVars, mode, line, caughtAt, command, demoIdx,
                   trace, readerVars, devSent>>

\* server.py:166: the Connection is closed; what was received and not read
\* is gone.
Close ==
    /\ pc = "close"
    /\ ser' = [ser EXCEPT !.is_open = FALSE]
    /\ closeCount' = closeCount + 1
    /\ rxBuf' = <<>>
    /\ pc' = "disconnected"
    /\ UNCHANGED <<argv, exc, connVars, mode, line, caughtAt, command, demoIdx,
                   trace, readerVars, devSent>>

\* server.py:167: the last line of main.
Disconnected ==
    /\ pc = "disconnected"
    /\ trace' = trace \o <<EvPrint("Disconnected")>>
    /\ pc' = "returned"
    /\ UNCHANGED <<argv, exc, connVars, ser, closeCount, mode, line, caughtAt,
                   command, demoIdx, readerVars, rxBuf, devSent>>

(***************************************************************************)
(* The device and read_responses (the reader thread).                      *)
(***************************************************************************)
\* The device sends one byte; it is buffered while the port is open.
DeviceSend ==
    /\ ser.is_open
    /\ devSent < MaxDevBytes
    /\ \E b \in DevBytes : rxBuf' = Append(rxBuf, b)
    /\ devSent' = devSent + 1
    /\ UNCHANGED <<argv, mainVars, connVars, ser, closeCount, readerVars>>

ReaderRunning ==
    rpc \in {"check_open", "in_waiting", "read_size", "read", "print", "except",
             "sleep"}

\* Excepts as `except serial.SerialException` would be.
ExceptsSerialOnly(e) == e \in {"SerialException", "PortNotOpenError"}

\* server.py:85: a bare except catches every exception.
Excepts(e) == TRUE

\* RThrow with a handler that goes on with the loop.
RThrowContinue(e) == rpc' = "sleep" /\ rexc' = rexc

\* An exception raised inside the try block of server.py:81-86.
RThrow(e) ==
    IF Excepts(e)
    THEN rpc' = "except" /\ rexc' = rexc
    ELSE rpc' = "raised" /\ rexc' = e

\* server.py:80: the loop test.
RCheckOpen ==
    /\ rpc = "check_open"
    /\ rpc' = IF ser.is_open THEN "in_waiting" ELSE "done"
    /\ UNCHANGED <<argv, mainVars, connVars, ser, closeCount, rn, rdata, rexc,
                   printed, rxBuf, devSent>>

\* server.py:82: `if ser.in_waiting`; it raises on a closed port and on an
\* I/O error.
RInWaiting ==
    /\ rpc = "in_waiting"
    /\ IF ~ser.is_open THEN RThrow("PortNotOpenError")
       ELSE \/ RThrow("OSError")
            \/ /\ rpc' = IF rxBuf = <<>> THEN "sleep" ELSE "read_size"
               /\ rexc' = rexc
    /\ UNCHANGED <<argv, mainVars, connVars, ser, closeCount, rn, rdata, printed,
                   rxBuf, devSent>>

\* server.py:83: the argument ser.in_waiting of ser.read().
RReadSize ==
    /\ rpc = "read_size"
    /\ IF ~ser.is_open THEN RThrow("PortNotOpenError") /\ rn' = rn
       ELSE \/ RThrow("OSError") /\ rn' = rn
            \/ /\ rn' = Len(rxBuf)
               /\ rpc' = "read"
               /\ rexc' = rexc
    /\ UNCHANGED <<argv, mainVars, connVars, ser, closeCount, rdata, printed,
                   rxBuf, devSent>>

\* server.py:83: ser.read(n) takes the first n buffered bytes, which are
\* decoded.
RRead ==
    /\ rpc = "read"
    /\ IF ~ser.is_open
       THEN RThrow("PortNotOpenError") /\ UNCHANGED <<rdata, rxBuf>>
       ELSE \/ RThrow("SerialException") /\ UNCHANGED <<rdata, rxBuf>>
            \/ /\ rn <= Len(rxBuf)
               /\ rdata' = Decode(SubSeq(rxBuf, 1, rn))
               /\ rxBuf' = SubSeq(rxBuf, rn + 1, Len(rxBuf))
               /\ rpc' = "print"
               /\ rexc' = rexc
    /\ rn' = 0
    /\ UNCHANGED <<argv, mainVars, connVars, ser, closeCount, printed, devSent>>

\* server.py:84: the response is printed and flushed; a failing standard
\* output raises.
RPrint ==
    /\ rpc = "print"
    /\ \/ /\ printed' = printed \o rdata
          /\ rpc' = "sleep"
          /\ rexc' = rexc
       \/ RThrow("BrokenPipeError") /\ printed' = printed
    /\ rdata' = <<>>
    /\ UNCHANGED <<argv, mainVars, connVars, ser, closeCount, rn, rxBuf, devSent>>

\* server.py:85-86: the handler leaves the loop.
RBreak ==
    /\ rpc = "except"
    /\ rpc' = "done"
    /\ UNCHANGED <<argv, mainVars, connVars, ser, closeCount, rn, rdata, rexc,
                   printed, rxBuf, devSent>>

\* server.py:87: the poll interval.
RSleep ==
    /\ rpc = "sleep"
    /\ rpc' = "check_open"
    /\ UNCHANGED <<argv, mainVars, connVars, ser, closeCount, rn, rdata, rexc,
                   printed, rxBuf, devSent>>

\* server.py:127: the reader is a daemon thread, so the end of the main
\* thread ends it wherever it is.
RKilled ==
    /\ MainEnded
    /\ ReaderRunning
    /\ rpc' = "killed"
    /\ UNCHANGED <<argv, mainVars, connVars, ser, closeCount, rn, rdata, rexc,
                   printed, rxBuf, devSent>>

(***************************************************************************)
(* Specifications.                                                         *)
(***************************************************************************)
Reader ==
    \/ RCheckOpen
    \/ RInWaiting
    \/ RReadSize
    \/ RRead
    \/ RPrint
    \/ RBreak
    \/ RSleep
    \/ RKilled

Next ==
    \/ MainStart
    \/ ListDevices
    \/ SelectAuto
    \/ SelectPrompt
    \/ SelectEOF
    \/ Open
    \/ MainConnected
    \/ Settle
    \/ ClearCheck
    \/ ClearRead
    \/ Dispatch
    \/ DemoEnter
    \/ DemoLabel
    \/ SendWrite
    \/ SendSleep
    \/ DemoPause
    \/ DemoDone
    \/ InteractiveEnter
    \/ Input
    \/ InputEOF
    \/ Interrupt
    \/ Close
    \/ Disconnected
    \/ DeviceSend
    \/ Reader

Spec == Init /\ [][Next]_vars

\* The operating system schedules the reader thread, and the interpreter
\* ends daemon threads when the main thread has ended.
FairSpec == Spec /\ WF_vars(Reader)

(***************************************************************************)
(* Claims.                                                                 *)
(***************************************************************************)
\* The bytes written to the Connection that trace records, in order.
Writes(t) == SelectSeq(t, LAMBDA e : e.ev = "write")

\* The positions of the enumeration's candidates.
CandidateIdx == {i \in 1..Len(ports) : IsCandidate(ports[i])}

\* The k-th candidate of the enumeration, counting from 0, in enumeration
\* order.
NthCandidate(k) ==
    CHOOSE i \in CandidateIdx : Cardinality({j \in CandidateIdx : j < i}) = k

\* C1: in every run in which main got a Connection and entered the demo or
\* the interactive session, and which ended normally or by a user
\* interrupt, the Connection has been closed exactly once when the process
\* ends.
C1_ClosedExactlyOnce ==
    (MainEnded /\ mode # "" /\ exc \in {"", "KeyboardInterrupt"})
        => closeCount = 1

\* C2: a selection entry that is no integer, or an integer outside
\* [0, count) of the list prompted over, makes connect_to_device return None
\* with no serial open attempted.
C2_InvalidSelectionFails ==
    \A i \in 1..Len(prompts) :
        LET p == prompts[i]
            v == ParseInt(p.entry)
        IN  (p.entry # None /\ (~v.ok \/ v.val < 0 \/ v.val >= p.count))
                => /\ pc \in {"connect_returned", "crashed"}
                   /\ ser = NoSerial
                   /\ port_name = NoPath
                   /\ openAttempts = <<>>

\* C2 witness: "5" was entered at the prompt over several candidates and
\* connect_to_device has returned None.
C2_Witness ==
    /\ pc = "connect_returned"
    /\ Len(prompts) = 1
    /\ prompts[1].over = "devices"
    /\ prompts[1].entry = <<53>>
    /\ ser = NoSerial

\* C3: when exactly one port of the enumeration is a candidate, no prompt is
\* issued and the path opened is that candidate's.
C3_SingleCandidateAutoSelected ==
    Cardinality(CandidateIdx) = 1 =>
        \A i \in CandidateIdx :
            /\ prompts = <<>>
            /\ pc \in {"select", "open", "connect_returned", "crashed"}
            /\ pc \in {"open", "connect_returned"} => port_name = ports[i].device
            /\ pc = "connect_returned" => openAttempts = <<ports[i].device>>
            /\ openAttempts \in {<<>>, <<ports[i].device>>}

\* C3 witness: three ports, the first one no candidate, one candidate, and
\* the open of the candidate's path has been attempted.
C3_Witness ==
    /\ pc = "connect_returned"
    /\ Len(ports) = 3
    /\ Cardinality(CandidateIdx) = 1
    /\ ~IsCandidate(ports[1])
    /\ Len(openAttempts) = 1

\* C4: with no candidate and at least one port there is exactly one prompt,
\* over the full port list, and a valid index i opens the i-th port; with
\* two or more candidates the one prompt is over the candidates, and a valid
\* index i opens the i-th candidate.
C4_PromptIndexing ==
    pc \in {"open", "connect_returned"} =>
        /\ (CandidateIdx = {} /\ ports # <<>>) =>
              /\ Len(prompts) = 1
              /\ prompts[1].over = "ports"
              /\ LET v == ParseInt(prompts[1].entry)
                 IN  (v.ok /\ v.val \in 0..(Len(ports) - 1)) =>
                        /\ port_name = ports[v.val + 1].device
                        /\ pc = "connect_returned" =>
                              openAttempts = <<ports[v.val + 1].device>>
        /\ Cardinality(CandidateIdx) >= 2 =>
              /\ Len(prompts) = 1
              /\ prompts[1].over = "devices"
              /\ LET v == ParseInt(prompts[1].entry)
                 IN  (v.ok /\ v.val \in 0..(Cardinality(CandidateIdx) - 1)) =>
                        /\ port_name = ports[NthCandidate(v.val)].device
                        /\ pc = "connect_returned" =>
                              openAttempts = <<ports[NthCandidate(v.val)].device>>

\* C4 witness: two candidates behind a port that is none, "1" entered, and
\* the open of the third port's path, the second candidate's, attempted.
C4_Witness ==
    /\ pc = "connect_returned"
    /\ Len(ports) = 3
    /\ CandidateIdx = {2, 3}
    /\ Len(prompts) = 1
    /\ prompts[1].entry = <<49>>
    /\ openAttempts = <<ports[3].device>>

\* C5: when the enumeration is empty, connect_to_device returns None after
\* printing the failure, with no prompt issued and no open attempted.
C5_NoPortsFails ==
    ports = <<>> =>
        /\ pc # "open"
        /\ pc = "connect_returned" =>
              /\ ser = NoSerial
              /\ prompts = <<>>
              /\ openAttempts = <<>>
              /\ trace[Len(trace)] = EvPrint("No serial ports found!")

\* C5 witness: connect_to_device has returned from an empty enumeration.
C5_Witness ==
    /\ pc = "connect_returned"
    /\ ports = <<>>
    /\ ser = NoSerial

\* A line that is neither empty, nor QUIT, nor DEMO once stripped.
IsCommandLine(l) ==
    /\ l # None
    /\ Strip(l) # <<>>
    /\ Upper(Strip(l)) \notin {QuitWord, DemoWord}

\* C6 as stated: every line that is non-empty and is not QUIT or DEMO in any
\* letter case has caused, once send_command has written, exactly one write
\* of the line's own text followed by CRLF.
C6_LineSentUnchanged ==
    (mode = "interactive" /\ demoIdx = 0 /\ pc \in {"send_sleep", "input"}
       /\ line # None /\ line # <<>> /\ Upper(line) \notin {QuitWord, DemoWord})
        => Writes(trace) = <<EvWrite(Encode(line) \o <<13, 10>>)>>

\* C6 amended: every line whose stripped text is non-empty and is not QUIT
\* or DEMO in any letter case is handled inside the session loop; once
\* send_command has written, it has caused exactly one write, of the UTF-8
\* bytes of the stripped text followed by CRLF, and the session then reads
\* input again.
C6_StrippedLineSent ==
    (mode = "interactive" /\ IsCommandLine(line)) =>
        /\ demoIdx = 0
        /\ pc \in {"send_write", "send_sleep", "input"}
        /\ pc = "send_write" => Writes(trace) = <<>>
        /\ pc \in {"send_sleep", "input"} =>
              Writes(trace) = <<EvWrite(Encode(Strip(line)) \o <<13, 10>>)>>

\* C6 witness: " pos 10 " was typed, "pos 10\r\n" written, and the session
\* waits for input.
C6_Witness ==
    /\ pc = "input"
    /\ line = <<32, 112, 111, 115, 32, 49, 48, 32>>
    /\ Writes(trace) = <<EvWrite(<<112, 111, 115, 32, 49, 48, 13, 10>>)>>

\* C7: no write to the Connection carries the text QUIT or DEMO in any
\* letter case, and a QUIT line ends the session with no write.
C7_QuitDemoNeverSent ==
    /\ \A i \in 1..Len(trace) :
          trace[i].ev = "write" =>
              Upper(Strip(Decode(trace[i].bytes))) \notin {QuitWord, DemoWord}
    /\ (line # None /\ Upper(Strip(line)) = QuitWord) =>
          /\ pc \in {"close", "disconnected", "returned"}
          /\ Writes(trace) = <<>>

\* C7 witness: " Quit " was typed and main has closed the Connection and
\* returned.
C7_Witness ==
    /\ line = <<32, 81, 117, 105, 116, 32>>
    /\ pc = "returned"
    /\ closeCount = 1

\* What a whole demo prints, writes and sleeps, in order.
DemoExpected ==
    << EvPrint("\n=== DEMO MODE ==="), EvPrint("Running motor demo sequence..."),
       EvPrint("\nMinimum position..."),
       EvWrite(<<80, 79, 83, 32, 48, 13, 10>>), EvSleep(100), EvSleep(2000),
       EvPrint("\nQuarter position..."),
       EvWrite(<<80, 79, 83, 32, 49, 48, 50, 52, 13, 10>>), EvSleep(100), EvSleep(2000),
       EvPrint("\nCenter position..."),
       EvWrite(<<80, 79, 83, 32, 50, 48, 52, 56, 13, 10>>), EvSleep(100), EvSleep(2000),
       EvPrint("\nThree-quarter position..."),
       EvWrite(<<80, 79, 83, 32, 51, 48, 55, 50, 13, 10>>), EvSleep(100), EvSleep(2000),
       EvPrint("\nMaximum position..."),
       EvWrite(<<80, 79, 83, 32, 52, 48, 57, 53, 13, 10>>), EvSleep(100), EvSleep(2000),
       EvPrint("\nBack to center..."),
       EvWrite(<<80, 79, 83, 32, 50, 48, 52, 56, 13, 10>>), EvSleep(100), EvSleep(2000) >>

\* The number of events of DemoExpected behind a position of demo_mode.
DemoProgress ==
    2 + 4 * (demoIdx - 1)
      + (CASE pc = "demo_label" -> 0
           [] pc = "send_write" -> 1
           [] pc = "send_sleep" -> 2
           [] pc = "demo_pause" -> 3
           [] pc = "demo_done" -> 4)

\* C8: at every position of a demo the events so far are the matching
\* prefix of label, POS command, grace sleep and pause, in the order 0, 1024,
\* 2048, 3072, 4095, 2048; a demo that reaches its end has made all six
\* writes, none skipped, repeated or reordered.
C8_DemoSequence ==
    /\ demoIdx > 0 =>
          /\ demoIdx \in 1..6
          /\ pc \in {"demo_label", "send_write", "send_sleep", "demo_pause",
                     "demo_done"}
          /\ trace = SubSeq(DemoExpected, 1, DemoProgress)
    /\ pc = "demo_done" => demoIdx = 6
    /\ (mode = "demo" /\ pc = "close") =>
          trace = DemoExpected \o <<EvPrint("\nDemo complete!")>>

\* C8 witness: a demo run from the command line has ended with six writes.
C8_Witness ==
    /\ mode = "demo"
    /\ pc = "close"
    /\ Len(Writes(trace)) = 6

\* C9: an interrupt at input() is caught, never raised out of the session;
\* the notice is printed, nothing is written, the session is left and the
\* next step of main closes the Connection.
C9_InterruptAtInput ==
    /\ [](caughtAt = "input" =>
            /\ mode = "interactive"
            /\ pc \in {"close", "disconnected", "returned", "crashed"}
            /\ pc = "close" =>
                  /\ trace = <<EvPrint("\nExiting...")>>
                  /\ ser.is_open
                  /\ closeCount = 0
            /\ pc \in {"disconnected", "returned"} =>
                  /\ Writes(trace) = <<>>
                  /\ ~ser.is_open
                  /\ closeCount = 1)
    /\ [][pc = "input" => /\ exc' # "KeyboardInterrupt"
                          /\ caughtAt' # caughtAt =>
                                /\ caughtAt' = "input"
                                /\ pc' = "close"
                                /\ trace' = <<EvPrint("\nExiting...")>>]_vars
    /\ [][(caughtAt = "input" /\ pc = "close" /\ pc' # "close") =>
             \/ pc' = "disconnected" /\ closeCount' = 1 /\ ~ser'.is_open
             \/ pc' = "crashed" /\ exc' = "KeyboardInterrupt"]_vars

\* C9 witness: the session was interrupted at input() and main has closed
\* the Connection and returned.
C9_Witness ==
    /\ caughtAt = "input"
    /\ pc = "returned"
    /\ closeCount = 1
    /\ exc = ""

\* C10: no exception escapes read_responses, and a reader whose Connection
\* is closed, or one of whose steps has failed, ends.
C10_ReaderContained ==
    /\ [](rpc # "raised" /\ rexc = "")
    /\ (ReaderRunning /\ (~ser.is_open \/ rpc = "except"))
           ~> (rpc \in {"done", "killed"})

\* C10 witness: the reader has ended by itself after main closed the
\* Connection.
C10_Witness ==
    /\ rpc = "done"
    /\ closeCount = 1
    /\ ~ser.is_open

\* C11: the reader prints exactly the bytes that became available before
\* the close and ends without error: a read hands on every byte it took,
\* the print adds what was read and nothing else, once, and the close finds
\* no received byte that the running reader has not read.
C11_ReaderPrintsAllBytes ==
    /\ [](rpc # "raised")
    /\ [][rdata' # rdata =>
             \/ rdata' = <<>> /\ printed' \in {printed, printed \o rdata}
             \/ Encode(rdata') = SubSeq(rxBuf, 1, rn)]_vars
    /\ [][printed' # printed => printed' = printed \o rdata]_vars
    /\ [][(closeCount' # closeCount /\ rpc # "unstarted") => rxBuf = <<>>]_vars

\* C12: with a first argument that is "demo" in any letter case and a
\* Connection, main enters the demo and never the session or its reader,
\* and it ends having run the whole demo once, closed the Connection and
\* printed the last line; with no Connection main ends in neither mode,
\* with nothing written.
C12_DemoArgument ==
    /\ (DemoRequested(argv) /\ mode # "") =>
          /\ mode = "demo"
          /\ rpc = "unstarted"
          /\ MainEnded =>
                /\ pc = "returned"
                /\ closeCount = 1
                /\ ~ser.is_open
                /\ trace = DemoExpected \o <<EvPrint("\nDemo complete!"),
                                             EvPrint("Disconnected")>>
    /\ (MainEnded /\ ser = NoSerial) =>
          /\ mode = ""
          /\ rpc = "unstarted"
          /\ closeCount = 0
          /\ Writes(trace) = <<>>

\* C13: at most one serial open is attempted in a run and the only
\* Connection there ever is is the one that attempt gave; when the attempt
\* fails there is no Connection, the failure has been printed, and main is
\* at its return or past it, in neither mode, with nothing closed.
C13_OneOpenAttempt ==
    /\ Len(openAttempts) <= 1
    /\ ser # NoSerial => openAttempts = <<ser.port>>
    /\ (Len(openAttempts) = 1 /\ ser = NoSerial) =>
          /\ pc \in {"connect_returned", "returned", "crashed"}
          /\ pc = "crashed" => exc = "KeyboardInterrupt"
          /\ pc # "crashed" => trace[Len(trace)] = EvPrint("Failed to connect")
          /\ mode = ""
          /\ rpc = "unstarted"
          /\ closeCount = 0

\* C13 witness: the one open attempt has failed and main has returned.
C13_Witness ==
    /\ pc = "returned"
    /\ Len(openAttempts) = 1
    /\ ser = NoSerial
    /\ exc = ""

\* C14: once the Connection is closed the reader takes nothing from it: an
\* availability check or a read made then fails and leads to the handler,
\* the received bytes and the response stay as they were, the handler only
\* leaves the loop, and a reader that has ended stays ended.
C14_NoReadAfterClose ==
    /\ [][(~ser.is_open /\ rpc \in {"in_waiting", "read_size", "read"}
              /\ rpc' # rpc) =>
             /\ rpc' \in {"except", "killed"}
             /\ rdata' = rdata
             /\ rxBuf' = rxBuf
             /\ printed' = printed]_vars
    /\ [][(~ser.is_open /\ rpc = "check_open" /\ rpc' # rpc) =>
             rpc' \in {"done", "killed"}]_vars
    /\ [][(rpc = "except" /\ rpc' # rpc) => rpc' \in {"done", "killed"}]_vars
    /\ [][(rpc \in {"done", "killed"}) => rpc' = rpc]_vars

\* C14 witness: main has closed the Connection while the reader was between
\* its loop test and its read, and the reader's attempt has failed.
C14_Witness ==
    /\ rpc = "except"
    /\ closeCount = 1
    /\ ~ser.is_open

\* The last line read by the session is DEMO in some letter case.
DemoLine == mode = "interactive" /\ line # None /\ IsDemo(Strip(line))

\* C15: while the last line read by the session is DEMO the session is
\* inside the demo, or back at input() with the whole demo behind it, all
\* six writes made; a line is read only at input(), so none is read between
\* the DEMO line and the end of the demo, and the demo returns to input()
\* with the Connection open and nothing closed.
C15_DemoBeforeNextInput ==
    /\ [](DemoLine =>
            /\ pc \in {"demo_enter", "demo_label", "send_write", "send_sleep",
                       "demo_pause", "demo_done", "input"}
            /\ pc = "demo_enter" <=> demoIdx = 0 /\ Writes(trace) = <<>>
            /\ pc = "input" =>
                  /\ trace = DemoExpected \o <<EvPrint("\nDemo complete!")>>
                  /\ demoIdx = 0
            /\ ser.is_open
            /\ closeCount = 0)
    /\ [][(DemoLine /\ pc # "input") =>
             \/ line' = line
             \/ line' = None /\ pc' \in {"close", "crashed"}]_vars
    /\ [][(DemoLine /\ pc = "demo_done" /\ pc' # pc) =>
             \/ pc' = "input" /\ line' = line
             \/ line' = None /\ pc' \in {"close", "crashed"}]_vars

\* C15 witness: "Demo" was typed with spaces around it, the demo has run
\* to its end and the session is at input() again.
C15_Witness ==
    /\ mode = "interactive"
    /\ line = <<32, 68, 101, 109, 111, 32>>
    /\ pc = "input"
    /\ Len(Writes(trace)) = 6

\* The settle delay is the last event of trace, or the last one before the
\* discard of a non-empty buffer.
SettledAndCleared ==
    LET n == Len(trace)
    IN  /\ n >= 1
        /\ \/ trace[n] = EvSleep(1000)
           \/ /\ n >= 2
              /\ trace[n].ev = "discard"
              /\ trace[n].dropped # <<>>
              /\ trace[n - 1] = EvSleep(1000)

\* C16: until main has chosen its mode nothing has been written, the reader
\* is not started and nothing of what was received has been printed; the
\* mode is chosen only with the settle delay made and what was buffered
\* after it read and dropped; the discard takes the whole buffer, and the
\* reader is started only in the session, behind that choice.
C16_SettleAndDiscardFirst ==
    /\ [](mode = "" =>
            /\ Writes(trace) = <<>>
            /\ rpc = "unstarted"
            /\ printed = <<>>
            /\ pc \notin {"send_write", "send_sleep"})
    /\ [](pc = "clear_check" => trace[Len(trace)] = EvSleep(1000))
    /\ [](pc = "dispatch" => SettledAndCleared)
    /\ [](rpc # "unstarted" => mode = "interactive")
    /\ [][(pc = "clear_read" /\ pc' = "dispatch") =>
             /\ rxBuf # <<>>
             /\ trace' = trace \o <<EvDiscard(rxBuf)>>
             /\ rxBuf' = <<>>
             /\ printed' = <<>>
             /\ rdata' = <<>>]_vars
    /\ [][mode' # mode => pc = "dispatch"]_vars

\* C16 witness: two bytes the device sent after the open were dropped
\* behind the settle delay, and main is about to choose its mode.
C16_Witness ==
    /\ pc = "dispatch"
    /\ Len(trace) >= 2
    /\ trace[Len(trace)].ev = "discard"
    /\ Len(trace[Len(trace)].dropped) = 2
    /\ trace[Len(trace) - 1] = EvSleep(1000)

\* The exceptions a failed write raises.
WriteErrors == {"SerialException", "PortNotOpenError"}

\* C17: send_command either writes its command or ends in an exception
\* that nothing catches: a failed write ends the main thread where it is,
\* in the demo and in the session alike, with the Connection not closed;
\* the ended thread takes no further step, so no later command is written.
C17_WriteFailurePropagates ==
    /\ []((exc \in WriteErrors /\ mode # "") =>
            /\ pc = "crashed"
            /\ demoIdx = 0
            /\ closeCount = 0
            /\ Writes(trace) = <<>>)
    /\ [][(pc = "send_write" /\ pc' # pc) =>
             \/ /\ pc' = "send_sleep"
                /\ trace' = trace \o <<EvWrite(CommandBytes(command))>>
                /\ exc' = exc
             \/ /\ pc' = "crashed"
                /\ exc' \in WriteErrors \cup {"KeyboardInterrupt"}
             \/ /\ pc' = "close"
                /\ caughtAt' = "send_write"
                /\ caughtAt' # caughtAt]_vars
    /\ [][pc = "crashed" =>
             /\ pc' = "crashed"
             /\ exc' = exc
             /\ trace' = trace
             /\ closeCount' = closeCount]_vars

\* C17 witness: a write of the demo run from the command line has failed
\* and the main thread has ended with the exception.
C17_Witness ==
    /\ pc = "crashed"
    /\ exc = "SerialException"
    /\ mode = "demo"
    /\ ser.is_open

\* C18 as stated: the session's handler catches an interrupt only at
\* input(), never during a command's write or grace sleep nor during a demo.
C18_CaughtOnlyAtInput == caughtAt \in {"", "input"}

\* The positions of the session's loop body: input(), and the demo and the
\* command sender called from the session.
SessionBody ==
    {"input", "demo_enter", "demo_label", "send_write", "send_sleep",
     "demo_pause", "demo_done"}

\* C18 amended: the session's handler catches an interrupt that arrives
\* anywhere in the session's loop body, at input() as well as during the
\* write or the grace sleep of a command sent from the session and during a
\* demo started from the session, and leaves the loop with the notice; an
\* interrupt that arrives anywhere else, in a demo started from the command
\* line or in main, is not caught and ends the main thread.
C18_CaughtInSessionBody ==
    /\ [](caughtAt # "" => mode = "interactive" /\ caughtAt \in SessionBody)
    /\ [][caughtAt' # caughtAt =>
             /\ mode = "interactive"
             /\ pc \in SessionBody
             /\ caughtAt' = pc
             /\ pc' = "close"
             /\ exc' = exc
             /\ trace' = <<EvPrint("\nExiting...")>>]_vars
    /\ [][(exc' # exc /\ exc' = "KeyboardInterrupt") =>
             /\ ~(mode = "interactive" /\ pc \in SessionBody)
             /\ pc' = "crashed"
             /\ caughtAt' = caughtAt]_vars

\* C18 witness: the session was interrupted during the grace sleep of a
\* command, and main has closed the Connection and returned.
C18_Witness ==
    /\ caughtAt = "send_sleep"
    /\ pc = "returned"
    /\ closeCount = 1
    /\ exc = ""

\* The last line read by the session is empty or made of whitespace only.
BlankLine == mode = "interactive" /\ line # None /\ Strip(line) = <<>>

\* C19: a line that is empty or made of whitespace only leaves the session
\* at input() with nothing printed, written or slept, the Connection open
\* and nothing closed, and reading it changes nothing of the Connection
\* and of the command sender; a command line is handed to send_command
\* without its leading and trailing whitespace, none of which is written.
C19_BlankLineNoOp ==
    /\ [](BlankLine =>
            /\ pc = "input"
            /\ trace = <<>>
            /\ demoIdx = 0
            /\ exc = ""
            /\ caughtAt = ""
            /\ ser.is_open
            /\ closeCount = 0)
    /\ [][(pc = "input" /\ pc' = "input" /\ BlankLine') =>
             UNCHANGED <<ser, closeCount, command, demoIdx, mode, exc,
                         caughtAt, openAttempts>>]_vars
    /\ []((mode = "interactive" /\ IsCommandLine(line)
             /\ pc \in {"send_write", "send_sleep"}) =>
            /\ command # <<>>
            /\ ~IsSpace(command[1])
            /\ ~IsSpace(command[Len(command)])
            /\ \E i, j \in 0..Len(line) :
                  /\ i + Len(command) + j = Len(line)
                  /\ \A k \in 1..i : IsSpace(line[k])
                  /\ \A k \in 1..j : IsSpace(line[Len(line) + 1 - k])
                  /\ command = SubSeq(line, i + 1, i + Len(command))
            /\ pc = "send_sleep" =>
                  trace = <<EvWrite(Encode(command) \o <<13, 10>>)>>)

\* C19 witness: a line of two spaces was read and the session is at input()
\* again, nothing written.
C19_Witness ==
    /\ mode = "interactive"
    /\ line = <<32, 32>>
    /\ pc = "input"
    /\ trace = <<>>

\* C20: a write is a step of send_command in the main thread, made with the
\* Connection open before and after it and nothing closed yet; once main
\* has closed the Connection the main thread is behind the close, where
\* nothing is sent, and no write is added; no step of the reader thread
\* adds a main-thread event, so the reader writes nothing.
C20_WritesOnlyWhileOpen ==
    /\ [][Len(Writes(trace')) > Len(Writes(trace)) =>
             /\ pc = "send_write"
             /\ ser.is_open
             /\ ser'.is_open
             /\ closeCount = 0
             /\ closeCount' = 0
             /\ Writes(trace') =
                    Append(Writes(trace), EvWrite(CommandBytes(command)))
             /\ UNCHANGED readerVars]_vars
    /\ [](closeCount > 0 =>
            /\ closeCount = 1
            /\ ~ser.is_open
            /\ pc \in {"disconnected", "returned", "crashed"})
    /\ [][closeCount > 0 => Writes(trace') \in {Writes(trace), <<>>}]_vars
    /\ [][(rpc # "unstarted" /\ readerVars' # readerVars) =>
             UNCHANGED <<trace, pc, ser, closeCount>>]_vars

\* C20 witness: a command of the session has been written while the reader
\* thread was about to print a response.
C20_Witness ==
    /\ mode = "interactive"
    /\ pc = "send_sleep"
    /\ Len(Writes(trace)) = 1
    /\ rpc = "print"
    /\ ser.is_open

====
